---- MODULE Spec2Model ----
(***************************************************************************)
(* MixMatch training controller (src/models/mix_match/controller.py):      *)
(* the EMA shadow updater, the ramped unlabeled-loss weight, the label     *)
(* guesser, mixup and the interleaved forward pass.                        *)
(*                                                                         *)
(* Tensor elements are exact rationals <<n, d>> (d > 0, lowest terms); the *)
(* floating-point rounding of torch/numpy is not modelled.                 *)
(***************************************************************************)
EXTENDS Integers, Sequences, FiniteSets, TLC

VARIABLES
    pc,                 \* position of the framework's loop / of a single call
    mode,               \* self.data.mode
    params,             \* WeightEMA.params: state_dict entries of the trained model
    ema_params,         \* WeightEMA.ema_params: state_dict entries of the shadow model
    init_params,        \* the trained entries as WideResNet() created them (history)
    opt_params,         \* the trained entries right after the optimizer's update (history)
    alpha,              \* WeightEMA.alpha
    wd,                 \* WeightEMA.wd
    learning_rate,      \* exp.ARGS['optimizer']['learning_rate']
    lambda_u,           \* SemiLoss.lambda_u
    epochs,             \* SemiLoss.epochs = exp.ARGS['train']['epochs']
    n_opt,              \* number of framework optimizer updates performed
    n_ema,              \* number of WeightEMA.step calls performed
    losses_classifier,  \* self.losses.classifier
    results,            \* names passed to add_results by the last routine call
    evaluated,          \* networks forwarded by the last routine call, in order
    outputs_l,          \* the predictions the diagnostics are computed from
    epoch,              \* exp.INFO['epoch']
    data_steps,         \* exp.INFO['data_steps']
    w,                  \* the unlabeled-loss weight returned by SemiLoss.__call__
    batch,              \* self.data.batch_size['train']
    inputs,             \* what the data iterator handed to the routine
    targets_l_oh,       \* one-hot labeled targets
    targets_u,          \* guessed targets
    l0,                 \* the draw np.random.beta(alpha, alpha)
    l,                  \* mixing coefficient after max(l, 1 - l)
    idx,                \* torch.randperm(...)
    mixed_input,
    mixed_target,
    logits              \* logits after the second interleave, as a list of chunks

vars == <<pc, mode, params, ema_params, init_params, opt_params, alpha, wd,
          learning_rate,
          lambda_u, epochs, n_opt, n_ema, losses_classifier, results, evaluated,
          outputs_l, epoch, data_steps, w, batch, inputs, targets_l_oh,
          targets_u, l0, l, idx, mixed_input, mixed_target, logits>>

emaVars == <<params, ema_params, init_params, opt_params, alpha, wd,
             learning_rate, n_opt, n_ema>>
lossVars == <<lambda_u, epochs, epoch, data_steps, w>>
diagVars == <<mode, losses_classifier, results, evaluated, outputs_l>>
mixVars == <<batch, inputs, targets_l_oh, targets_u, l0, l, idx, mixed_input,
             mixed_target, logits>>

\* an attribute or local that holds no value yet
None == <<>>

-----------------------------------------------------------------------------
(* Exact rational arithmetic.                                              *)

Abs(x) == IF x < 0 THEN -x ELSE x

RECURSIVE GCD(_, _)
GCD(a, b) == IF b = 0 THEN a ELSE GCD(b, a % b)

Rat(n, d) ==
    LET g == GCD(Abs(n), Abs(d))
        s == IF d < 0 THEN -1 ELSE 1
    IN  <<(s * n) \div g, (s * d) \div g>>

R(n) == <<n, 1>>

RNeg(x) == <<-x[1], x[2]>>

RAdd(x, y) ==
    LET g == GCD(x[2], y[2])
        m == (x[2] \div g) * y[2]
    IN  Rat(x[1] * (m \div x[2]) + y[1] * (m \div y[2]), m)

RSub(x, y) == RAdd(x, RNeg(y))

RMul(x, y) ==
    LET g1 == GCD(Abs(x[1]), y[2])
        g2 == GCD(Abs(y[1]), x[2])
    IN  IF x[1] = 0 \/ y[1] = 0 THEN <<0, 1>>
        ELSE <<(x[1] \div g1) * (y[1] \div g2), (x[2] \div g2) * (y[2] \div g1)>>

RInv(x) == IF x[1] < 0 THEN <<-x[2], -x[1]>> ELSE <<x[2], x[1]>>

RDiv(x, y) == RMul(x, RInv(y))

RLeq(x, y) == RSub(x, y)[1] <= 0

RMax(x, y) == IF RLeq(x, y) THEN y ELSE x

RMin(x, y) == IF RLeq(x, y) THEN x ELSE y

RECURSIVE RPow(_, _)
RPow(x, k) == IF k = 0 THEN R(1) ELSE RMul(x, RPow(x, k - 1))

RECURSIVE RSum(_)
RSum(s) == IF s = <<>> THEN R(0) ELSE RAdd(Head(s), RSum(Tail(s)))

RECURSIVE Pow2(_)
Pow2(k) == IF k = 0 THEN 1 ELSE 2 * Pow2(k - 1)

Range(s) == {s[i] : i \in DOMAIN s}

-----------------------------------------------------------------------------
(* WeightEMA                                                               *)

\* A state_dict entry: shape is the tensor's shape (its length is the rank),
\* data its elements in storage order.
NumElems(shape) ==
    LET RECURSIVE Prod(_)
        Prod(s) == IF s = <<>> THEN 1 ELSE Head(s) * Prod(Tail(s))
    IN  Prod(shape)

Tensor(shape, x) == [shape |-> shape, data |-> [i \in 1..NumElems(shape) |-> x]]

\* for param, ema_param in zip(self.params, self.ema_params):
\*     param.data.copy_(ema_param.data)
WeightEMAInit(ps, es) ==
    [ params |-> [k \in 1..Len(ps) |->
                    IF k <= Len(es) THEN [ps[k] EXCEPT !.data = es[k].data]
                    ELSE ps[k]],
      ema_params |-> es ]

\* ema_param.mul_(self.alpha); ema_param.add_(param * one_minus_alpha)
EmaAverage(e, p, a) ==
    [i \in DOMAIN e |-> RAdd(RMul(e[i], a), RMul(p[i], RSub(R(1), a)))]

\* param.mul_(1 - self.wd)
Decay(p, d) == [i \in DOMAIN p |-> RMul(p[i], RSub(R(1), d))]

\* variant: the trained value is decayed before it is averaged into the shadow
WeightEMAStepBadOrder(ps, es, a, d) ==
    [ params |-> [k \in 1..Len(ps) |->
                    IF k <= Len(es) /\ Len(ps[k].shape) > 0
                    THEN [ps[k] EXCEPT !.data = Decay(ps[k].data, d)] ELSE ps[k]],
      ema_params |-> [k \in 1..Len(es) |->
                    IF k <= Len(ps) /\ Len(ps[k].shape) > 0
                    THEN [es[k] EXCEPT !.data =
                              EmaAverage(es[k].data, Decay(ps[k].data, d), a)]
                    ELSE es[k]] ]

\* variant: no test of the rank
WeightEMAStepNoRankTest(ps, es, a, d) ==
    [ params |-> [k \in 1..Len(ps) |->
                    IF k <= Len(es)
                    THEN [ps[k] EXCEPT !.data = Decay(ps[k].data, d)] ELSE ps[k]],
      ema_params |-> [k \in 1..Len(es) |->
                    IF k <= Len(ps)
                    THEN [es[k] EXCEPT !.data = EmaAverage(es[k].data, ps[k].data, a)]
                    ELSE es[k]] ]

\* WeightEMA.step: the shadow is averaged with the trained value as it is
\* before the decay of the same iteration; zip stops at the shorter list.
WeightEMAStep(ps, es, a, d) ==
    [ params |-> [k \in 1..Len(ps) |->
                    IF k <= Len(es) /\ Len(ps[k].shape) > 0
                    THEN [ps[k] EXCEPT !.data = Decay(ps[k].data, d)] ELSE ps[k]],
      ema_params |-> [k \in 1..Len(es) |->
                    IF k <= Len(ps) /\ Len(ps[k].shape) > 0
                    THEN [es[k] EXCEPT !.data = EmaAverage(es[k].data, ps[k].data, a)]
                    ELSE es[k]] ]

\* self.wd = 0.02 * exp.ARGS['optimizer']['learning_rate']
WdOf(lr) == RMul(Rat(2, 100), lr)

-----------------------------------------------------------------------------
(* SemiLoss                                                                *)

\* np.clip(x, 0.0, 1.0)
Clip01(x) == RMin(RMax(x, R(0)), R(1))

\* variant: the quotient is not clipped
LinearRampupNoClip(current, rampup_length) ==
    IF rampup_length = 0 THEN R(1) ELSE RDiv(current, R(rampup_length))

\* SemiLoss.linear_rampup
LinearRampup(current, rampup_length) ==
    IF rampup_length = 0 THEN R(1)
    ELSE Clip01(RDiv(current, R(rampup_length)))

\* third component of SemiLoss.__call__:
\* self.lambda_u * SemiLoss.linear_rampup(epoch, self.epochs)
SemiLossWeight(lam, eps, current) == RMul(R(lam), LinearRampup(current, eps))

\* the progress argument the routine passes:
\* exp.INFO['epoch'] + exp.INFO['data_steps'] / exp.ARGS['train']['epochs']
RoutineProgress(ep, ds, eps) == RAdd(R(ep), Rat(ds, eps))

-----------------------------------------------------------------------------
(* The controller driven by the framework's loop                           *)

MaxSeed == 2
MaxSteps == 2
MaxDelta == 1
MaxEpoch == 1

\* shapes of the state_dict entries, identical for both networks
Shapes == << <<2>>, <<>>, <<1, 1>> >>

\* WideResNet(...): a freshly initialised network; the seed stands for the
\* random initialisation
NewNet(seed) ==
    [k \in 1..Len(Shapes) |->
        [shape |-> Shapes[k],
         data |-> [i \in 1..NumElems(Shapes[k]) |-> R(seed + 2 * k + i)]]]

\* (ema_decay, learning_rate) pairs offered to build
Hyper == { <<Rat(1, 2), R(25)>>, <<Rat(3, 4), Rat(25, 2)>> }

LossValues == { R(0), Rat(1, 2) }

\* the classifier's forward pass on one sample: a function of the network's
\* entries and of the input
Forward(net, x) == RAdd(RMul(net[1].data[1], x), net[3].data[1])

\* the framework optimizer's update of the trained network (gradient step d)
OptimizerUpdate(ps, d) ==
    [k \in 1..Len(ps) |->
        [ps[k] EXCEPT !.data = [i \in DOMAIN ps[k].data |-> RAdd(ps[k].data[i], R(d))]]]

TrainResults == <<"losses_l", "losses_u", "w", "cross_entropy", "acc_top1">>
TestResults == <<"cross_entropy", "acc_top1">>

MixIdle ==
    /\ batch = 0 /\ inputs = None /\ targets_l_oh = None /\ targets_u = None
    /\ l0 = None /\ l = None /\ idx = None /\ mixed_input = None
    /\ mixed_target = None /\ logits = None

Init ==
    /\ pc = "new"
    /\ mode = "none"
    /\ params = <<>> /\ ema_params = <<>> /\ init_params = <<>> /\ opt_params = <<>>
    /\ alpha = None /\ wd = None /\ learning_rate = None /\ lambda_u = 0 /\ epochs = 0
    /\ n_opt = 0 /\ n_ema = 0
    /\ losses_classifier = None /\ results = <<>> /\ evaluated = <<>>
    /\ outputs_l = None
    /\ epoch = 0 /\ data_steps = 0 /\ w = None
    /\ MixIdle

\* MixMatchController.build
Build ==
    /\ pc = "new"
    /\ \E sp \in 1..MaxSeed, se \in 1..MaxSeed, hp \in Hyper, lam \in {1, 75} :
          LET ema == WeightEMAInit(NewNet(sp), NewNet(se)) IN
          /\ init_params' = NewNet(sp)
          /\ params' = ema.params
          /\ ema_params' = ema.ema_params
          /\ opt_params' = ema.params
          /\ alpha' = hp[1]
          /\ learning_rate' = hp[2]
          /\ wd' = WdOf(hp[2])
          /\ lambda_u' = lam
    /\ epochs' = MaxEpoch + 1
    /\ mode' = "test"
    /\ pc' = "ready"
    /\ UNCHANGED <<n_opt, n_ema, losses_classifier, results, evaluated, outputs_l,
                   epoch, data_steps, w>>
    /\ UNCHANGED mixVars

\* the framework switches the data iterator between the training and the
\* test split; a new epoch starts when training resumes after an evaluation
DataReset ==
    /\ pc = "ready"
    /\ \/ /\ mode = "train" /\ mode' = "test" /\ epoch' = epoch
       \/ /\ mode = "test" /\ mode' = "train"
          /\ epoch' = IF data_steps > 0 /\ epoch < MaxEpoch + 1 THEN epoch + 1 ELSE epoch
    /\ UNCHANGED <<pc, losses_classifier, results, evaluated, outputs_l, data_steps,
                   lambda_u, epochs, w>>
    /\ UNCHANGED emaVars
    /\ UNCHANGED mixVars

\* variant: the test branch forwards the trained network
RoutineTestUsesTrained ==
    /\ pc = "ready" /\ mode = "test"
    /\ losses_classifier' = R(0)
    /\ evaluated' = <<"classifier">>
    /\ outputs_l' = Forward(params, R(1))
    /\ results' = TestResults
    /\ UNCHANGED <<pc, mode, lambda_u, epochs, epoch, data_steps, w>>
    /\ UNCHANGED emaVars
    /\ UNCHANGED mixVars

\* MixMatchController.routine with self.data.mode == 'test'
RoutineTest ==
    /\ pc = "ready" /\ mode = "test"
    /\ losses_classifier' = R(0)
    /\ evaluated' = <<"ema_classifier">>
    /\ outputs_l' = Forward(ema_params, R(1))
    /\ results' = TestResults
    /\ UNCHANGED <<pc, mode, lambda_u, epochs, epoch, data_steps, w>>
    /\ UNCHANGED emaVars
    /\ UNCHANGED mixVars

\* variant: the EMA step is taken inside the routine (the call that is
\* commented out after the loss)
RoutineTrainWithEma ==
    /\ pc = "ready" /\ mode = "train" /\ n_opt < MaxSteps
    /\ \E Ll \in LossValues, Lu \in LossValues :
          /\ w' = SemiLossWeight(lambda_u, epochs, RoutineProgress(epoch, data_steps, epochs))
          /\ losses_classifier' = RAdd(Ll, RMul(w', Lu))
    /\ evaluated' = <<"classifier", "classifier", "classifier", "classifier",
                      "classifier", "classifier">>
    /\ outputs_l' = Forward(params, R(1))
    /\ results' = TrainResults
    /\ pc' = "routine_done"
    /\ LET ema == WeightEMAStep(params, ema_params, alpha, wd) IN
          /\ params' = ema.params
          /\ ema_params' = ema.ema_params
    /\ UNCHANGED <<mode, lambda_u, epochs, epoch, data_steps>>
    /\ UNCHANGED <<init_params, opt_params, alpha, wd, learning_rate, n_opt, n_ema>>
    /\ UNCHANGED mixVars

\* MixMatchController.routine in training mode: two forward passes for the
\* guessed labels, one per interleaved chunk, the loss, and one more forward
\* pass for the diagnostics.  The labeled and unlabeled losses are values of
\* the log/softmax of the network outputs and are drawn from LossValues.
RoutineTrain ==
    /\ pc = "ready" /\ mode = "train" /\ n_opt < MaxSteps
    /\ \E Ll \in LossValues, Lu \in LossValues :
          /\ w' = SemiLossWeight(lambda_u, epochs, RoutineProgress(epoch, data_steps, epochs))
          /\ losses_classifier' = RAdd(Ll, RMul(w', Lu))
    /\ evaluated' = <<"classifier", "classifier", "classifier", "classifier",
                      "classifier", "classifier">>
    /\ outputs_l' = Forward(params, R(1))
    /\ results' = TrainResults
    /\ pc' = "routine_done"
    /\ UNCHANGED <<mode, lambda_u, epochs, epoch, data_steps>>
    /\ UNCHANGED emaVars
    /\ UNCHANGED mixVars

\* variant: the EMA step is taken before the optimizer's update
OptimizerStepEmaFirst ==
    /\ pc = "routine_done"
    /\ \E d \in (-MaxDelta..MaxDelta) \ {0} :
          LET ema == WeightEMAStep(params, ema_params, alpha, wd) IN
          /\ opt_params' = OptimizerUpdate(ema.params, d)
          /\ params' = opt_params'
          /\ ema_params' = ema.ema_params
    /\ n_opt' = n_opt + 1
    /\ n_ema' = n_ema + 1
    /\ pc' = "step_done"
    /\ UNCHANGED <<init_params, alpha, wd, learning_rate>>
    /\ UNCHANGED lossVars
    /\ UNCHANGED diagVars
    /\ UNCHANGED mixVars

\* MixMatchController.optimizer_step: super().optimizer_step(retain_graph),
\* which updates the trained network only, then self.ema_optimizer.step()
OptimizerStep ==
    /\ pc = "routine_done"
    /\ \E d \in (-MaxDelta..MaxDelta) \ {0} :
          LET upd == OptimizerUpdate(params, d)
              ema == WeightEMAStep(upd, ema_params, alpha, wd) IN
          /\ opt_params' = upd
          /\ params' = ema.params
          /\ ema_params' = ema.ema_params
    /\ n_opt' = n_opt + 1
    /\ n_ema' = n_ema + 1
    /\ pc' = "step_done"
    /\ UNCHANGED <<init_params, alpha, wd, learning_rate>>
    /\ UNCHANGED lossVars
    /\ UNCHANGED diagVars
    /\ UNCHANGED mixVars

\* the framework's bookkeeping after a training step
EndStep ==
    /\ pc = "step_done"
    /\ data_steps' = data_steps + 1
    /\ pc' = "ready"
    /\ UNCHANGED <<lambda_u, epochs, epoch, w>>
    /\ UNCHANGED emaVars
    /\ UNCHANGED diagVars
    /\ UNCHANGED mixVars

Next == Build \/ DataReset \/ RoutineTest \/ RoutineTrain \/ OptimizerStep \/ EndStep

Spec == Init /\ [][Next]_vars

-----------------------------------------------------------------------------
(* Properties of the controller under Spec                                 *)

Rank(t) == Len(t.shape)

Built == pc # "new"

\* C2: constructing the EMA updater makes every shadow entry equal to the
\* value the trained entry had before construction and leaves the trained
\* entries as they were.
C2_ShadowCopiedFromTrained ==
    (Built /\ n_opt = 0) => (ema_params = init_params /\ params = init_params)

\* C5: the EMA steps are exactly the optimizer steps: the two counts agree
\* whenever no optimizer_step is in progress, an EMA step happens only inside
\* optimizer_step, after the optimizer's update of the same call (the shadow
\* averages in the updated trained values), and never inside the routine.
C5_EmaFollowsOptimizer ==
    /\ [](n_ema = n_opt)
    /\ [][ /\ (n_ema' # n_ema \/ n_opt' # n_opt) =>
                /\ pc = "routine_done"
                /\ n_opt' = n_opt + 1
                /\ n_ema' = n_ema + 1
                /\ opt_params' # params
                /\ \A k \in DOMAIN ema_params :
                      Rank(ema_params[k]) > 0 =>
                          ema_params'[k].data =
                              EmaAverage(ema_params[k].data, opt_params'[k].data, alpha)
           /\ (pc = "ready" /\ pc' = "routine_done") =>
                (n_ema' = n_ema /\ ema_params' = ema_params)
         ]_vars

C5_Witness == n_ema = MaxSteps /\ n_opt = MaxSteps /\ pc = "ready"

\* C6: an EMA step changes no rank-0 entry of either list (the shadow's
\* rank-0 entries never change at all once built), and every entry of rank
\* >= 1 is both averaged (shadow) and decayed (trained).
C6_RankZeroUntouched ==
    [][ /\ Built => \A k \in DOMAIN ema_params :
                        Rank(ema_params[k]) = 0 => ema_params'[k] = ema_params[k]
        /\ n_ema' = n_ema + 1 =>
              \A k \in DOMAIN params :
                 IF Rank(params[k]) = 0
                 THEN params'[k] = opt_params'[k]
                 ELSE /\ params'[k].data =
                            [i \in DOMAIN params[k].data |->
                                RMul(opt_params'[k].data[i], RSub(R(1), wd))]
                      /\ ema_params'[k].data =
                            [i \in DOMAIN params[k].data |->
                                RAdd(RMul(alpha, ema_params[k].data[i]),
                                     RMul(RSub(R(1), alpha), opt_params'[k].data[i]))]
      ]_vars

C6_Witness ==
    /\ n_ema = MaxSteps
    /\ \E k \in DOMAIN params : Rank(params[k]) = 0 /\ params[k] # ema_params[k]
    /\ \E k \in DOMAIN params : Rank(params[k]) > 0 /\ params[k] # ema_params[k]

C9_TestUsesShadowOnly ==
    [][ /\ (pc = "ready" /\ mode = "test" /\ mode' = "test") =>
              /\ evaluated' = <<"ema_classifier">>
              /\ outputs_l' = Forward(ema_params, R(1))
              /\ losses_classifier' = R(0)
              /\ results' = <<"cross_entropy", "acc_top1">>
              /\ UNCHANGED <<w, params, ema_params>>
              /\ UNCHANGED mixVars
        /\ (pc = "ready" /\ mode = "train" /\ mode' = "train") =>
              /\ "ema_classifier" \notin Range(evaluated')
              /\ evaluated'[Len(evaluated')] = "classifier"
              /\ outputs_l' = Forward(params, R(1))
              /\ {"losses_l", "losses_u", "w"} \subseteq Range(results')
      ]_vars

C9_Witness ==
    /\ mode = "test" /\ evaluated = <<"ema_classifier">> /\ n_ema > 0
    /\ losses_classifier = R(0)
    /\ outputs_l = Forward(ema_params, R(1))
    /\ outputs_l # Forward(params, R(1))

-----------------------------------------------------------------------------
(* WeightEMA.step on its own: SpecStep starts from an updater whose two    *)
(* lists hold arbitrary values (as after some optimizer updates) and       *)
(* applies step.                                                           *)

\* (alpha, learning_rate) pairs, the defaults 0.999 and 0.002 among them
StepHyper == { <<Rat(9, 10), Rat(2, 1000)>>, <<Rat(999, 1000), Rat(2, 1000)>>,
               <<Rat(1, 2), R(25)>>, <<Rat(3, 4), Rat(25, 2)>> }

\* a network whose every element is x
ConstNet(x) == [k \in 1..Len(Shapes) |-> Tensor(Shapes[k], x)]

StepNets == {NewNet(sd) : sd \in 0..MaxSeed} \cup {ConstNet(R(1))}

InitStep ==
    /\ pc = "ema"
    /\ mode = "none"
    /\ params \in StepNets
    /\ ema_params \in StepNets
    /\ init_params = params
    /\ opt_params = params
    /\ \E hp \in StepHyper :
          alpha = hp[1] /\ learning_rate = hp[2] /\ wd = WdOf(hp[2])
    /\ lambda_u = 0 /\ epochs = 0
    /\ n_opt = 0 /\ n_ema = 0
    /\ losses_classifier = None /\ results = <<>> /\ evaluated = <<>>
    /\ outputs_l = None
    /\ epoch = 0 /\ data_steps = 0 /\ w = None
    /\ MixIdle

\* one call of WeightEMA.step
EmaStep ==
    /\ pc = "ema"
    /\ LET ema == WeightEMAStep(params, ema_params, alpha, wd) IN
          /\ params' = ema.params
          /\ ema_params' = ema.ema_params
    /\ n_ema' = n_ema + 1
    /\ pc' = "ema_done"
    /\ UNCHANGED <<init_params, opt_params, alpha, wd, learning_rate, n_opt>>
    /\ UNCHANGED lossVars
    /\ UNCHANGED diagVars
    /\ UNCHANGED mixVars

NextStep == EmaStep

SpecStep == InitStep /\ [][NextStep]_vars

AllOnes(net) == \A k \in DOMAIN net : \A i \in DOMAIN net[k].data : net[k].data[i] = R(1)

\* C1: one step maps every pair of rank > 0 to
\*   shadow' = alpha * shadow + (1 - alpha) * trained  (trained before decay),
\*   trained' = trained * (1 - wd),  wd = 0.02 * learning_rate;
\* equal values leave the shadow unchanged; with alpha = 0.9, learning rate
\* 0.002 and all values 1.0 the trained values become 0.99996.
C1_StepFormula ==
    [][ n_ema' = n_ema + 1 =>
          /\ wd = RMul(Rat(2, 100), learning_rate)
          /\ \A k \in DOMAIN params : Rank(params[k]) > 0 =>
                \A i \in DOMAIN params[k].data :
                   /\ ema_params'[k].data[i] =
                         RAdd(RMul(alpha, ema_params[k].data[i]),
                              RMul(RSub(R(1), alpha), params[k].data[i]))
                   /\ params'[k].data[i] = RMul(params[k].data[i], RSub(R(1), wd))
                   /\ ema_params[k].data[i] = params[k].data[i] =>
                         ema_params'[k].data[i] = ema_params[k].data[i]
          /\ (alpha = Rat(9, 10) /\ learning_rate = Rat(2, 1000)
                /\ AllOnes(params) /\ AllOnes(ema_params)) =>
                \A k \in DOMAIN params : Rank(params[k]) > 0 =>
                   \A i \in DOMAIN params[k].data :
                      /\ ema_params'[k].data[i] = R(1)
                      /\ params'[k].data[i] = Rat(99996, 100000)
      ]_vars

C1_Witness ==
    /\ n_ema = 1 /\ alpha = Rat(9, 10) /\ wd = Rat(4, 100000)
    /\ AllOnes(init_params) /\ AllOnes(ema_params)
    /\ params[1].data[1] = Rat(99996, 100000)

-----------------------------------------------------------------------------
(* The unlabeled-loss weight on its own: SpecRampup draws the loss'        *)
(* configuration and the framework's counters and applies the routine's    *)
(* call of the loss.                                                       *)

MaxLambda == 2
MaxHorizon == 3
MaxDataSteps == 4

\* (epochs, epoch) pairs: small horizons with every epoch up to one past the
\* horizon, and the horizon 1000 at its start, middle, end and beyond
HorizonCases ==
    {<<e, ep>> : e \in 1..MaxHorizon, ep \in 0..(MaxHorizon + 1)}
        \cup {<<1000, ep>> : ep \in {0, 500, 1000, 1001}}

InitRampup ==
    /\ pc = "loss"
    /\ mode = "train"
    /\ params = <<>> /\ ema_params = <<>> /\ init_params = <<>> /\ opt_params = <<>>
    /\ alpha = None /\ wd = None /\ learning_rate = None
    /\ lambda_u \in (1..MaxLambda) \cup {75}
    /\ \E hc \in HorizonCases : epochs = hc[1] /\ epoch = hc[2]
    /\ data_steps \in 0..MaxDataSteps
    /\ n_opt = 0 /\ n_ema = 0
    /\ losses_classifier = None /\ results = <<>> /\ evaluated = <<>>
    /\ outputs_l = None
    /\ w = None
    /\ MixIdle

\* the routine's call self.loss(..., epoch + data_steps / epochs), third result
RoutineLoss ==
    /\ pc = "loss"
    /\ epochs # 0
    /\ w' = SemiLossWeight(lambda_u, epochs, RoutineProgress(epoch, data_steps, epochs))
    /\ pc' = "loss_done"
    /\ UNCHANGED <<lambda_u, epochs, epoch, data_steps>>
    /\ UNCHANGED emaVars
    /\ UNCHANGED diagVars
    /\ UNCHANGED mixVars

NextRampup == RoutineLoss

SpecRampup == InitRampup /\ [][NextRampup]_vars

\* C4: w = lambda_u * clamp(progress, 0, 1) with progress = current / epochs
\* and current = epoch + data_steps / epochs the value the routine passes:
\* 0 at progress 0, lambda_u at or after the horizon, linear in between, never
\* outside [0, lambda_u]; lambda_u = 75, horizon 1000, progress 0.5 gives 37.5.
C4_RampedWeight ==
    pc = "loss_done" =>
        LET cur_num == epoch * epochs + data_steps     \* current * epochs
            hor_num == epochs * epochs                 \* horizon * epochs
        IN  /\ cur_num = 0 => w = R(0)
            /\ cur_num >= hor_num => w = R(lambda_u)
            /\ epoch >= epochs => w = R(lambda_u)
            /\ (0 < cur_num /\ cur_num < hor_num) =>
                  /\ w = Rat(lambda_u * cur_num, hor_num)
                  /\ RLeq(R(0), w) /\ RLeq(w, R(lambda_u)) /\ w # R(lambda_u)
            /\ (lambda_u = 75 /\ epochs = 1000 /\ epoch = 500 /\ data_steps = 0) =>
                  w = Rat(375, 10)

C4_Witness ==
    /\ pc = "loss_done" /\ lambda_u = 75 /\ epochs = 1000 /\ epoch = 500
    /\ data_steps = 0 /\ w = Rat(75, 2)

-----------------------------------------------------------------------------
(* Interleaving and the forward pass over interleaved chunks               *)

\* interleave_offsets(batch, nu): nu + 1 groups of batch // (nu + 1) rows, the
\* remainder spread one row each over the last groups; Offsets(..)[p + 1] is
\* the end of group p.
Groups(b, nu) ==
    [p \in 1..(nu + 1) |->
        (b \div (nu + 1)) + (IF p > (nu + 1) - (b % (nu + 1)) THEN 1 ELSE 0)]

RECURSIVE SumTo(_, _)
SumTo(g, p) == IF p = 0 THEN 0 ELSE g[p] + SumTo(g, p - 1)

InterleaveOffsets(b, nu) == [p \in 1..(nu + 2) |-> SumTo(Groups(b, nu), p - 1)]

\* the group the (1-based) row position t lies in
GroupOf(offs, t) == CHOOSE p \in 1..(Len(offs) - 1) : offs[p] < t /\ t <= offs[p + 1]

\* interleave(xy, batch): every chunk is cut at the offsets, group i of chunk
\* 0 is exchanged with group i of chunk i (i = 1..nu), the groups are joined
\* again.  Chunks are numbered from 1 here.
Interleave(xy, b) ==
    LET nu == Len(xy) - 1
        offs == InterleaveOffsets(b, nu)
        Src(j, p) == IF j = 1 THEN p ELSE IF p = j THEN 1 ELSE j
    IN  [j \in 1..Len(xy) |->
            [t \in 1..Len(xy[j]) |-> xy[Src(j, GroupOf(offs, t))][t]]]

\* list(torch.split(x, size)) for a length that is a multiple of size
Split(x, size) ==
    [j \in 1..(Len(x) \div size) |-> [t \in 1..size |-> x[(j - 1) * size + t]]]

\* torch.cat(chunks, dim=0)
RECURSIVE Cat(_)
Cat(chunks) == IF chunks = <<>> THEN <<>> ELSE Head(chunks) \o Cat(Tail(chunks))

\* self.nets.classifier(chunk) for a network that maps every row on its own
ForwardChunk(net, chunk) == [t \in DOMAIN chunk |-> Forward(net, chunk[t])]

\* variant: the logits are not interleaved back
RoutineLogitsNotPutBack(x, b, net) ==
    LET il == Interleave(Split(x, b), b)
    IN  [mixed_input |-> il,
         logits |-> [j \in DOMAIN il |-> ForwardChunk(net, il[j])]]

\* the routine from the split of the mixed inputs to the logits put back:
\* split, interleave, forward chunk by chunk, interleave again
RoutineLogits(x, b, net) ==
    LET il == Interleave(Split(x, b), b)
        out == [j \in DOMAIN il |-> ForwardChunk(net, il[j])]
    IN  [mixed_input |-> il, logits |-> Interleave(out, b)]

MaxBatch == 4
MaxStreams == 3

\* n mixed rows with pairwise different values, rotated by r
MixedRows(n, r) == [i \in 1..n |-> R((i - 1 + r) % n)]

InitInterleave ==
    /\ pc = "forward"
    /\ mode = "train"
    /\ \E sd \in 1..MaxSeed : params = NewNet(sd)
    /\ ema_params = <<>> /\ init_params = <<>> /\ opt_params = <<>>
    /\ alpha = None /\ wd = None /\ learning_rate = None
    /\ lambda_u = 0 /\ epochs = 0
    /\ n_opt = 0 /\ n_ema = 0
    /\ losses_classifier = None /\ results = <<>> /\ evaluated = <<>>
    /\ outputs_l = None
    /\ epoch = 0 /\ data_steps = 0 /\ w = None
    /\ batch \in 1..MaxBatch
    /\ \E ns \in 1..MaxStreams : \E r \in 0..(ns * batch - 1) :
          inputs = MixedRows(ns * batch, r)
    /\ targets_l_oh = None /\ targets_u = None /\ l0 = None /\ l = None /\ idx = None
    /\ mixed_input = None /\ mixed_target = None /\ logits = None

\* the routine's interleaved forward pass over the mixed inputs
RoutineForward ==
    /\ pc = "forward"
    /\ LET out == RoutineLogits(inputs, batch, params) IN
          /\ mixed_input' = out.mixed_input
          /\ logits' = out.logits
    /\ pc' = "forward_done"
    /\ UNCHANGED <<batch, inputs, targets_l_oh, targets_u, l0, l, idx, mixed_target>>
    /\ UNCHANGED emaVars
    /\ UNCHANGED lossVars
    /\ UNCHANGED diagVars

NextInterleave == RoutineForward

SpecInterleave == InitInterleave /\ [][NextInterleave]_vars

-----------------------------------------------------------------------------
(* Label guessing and mixup                                                *)

\* torch.softmax(row): exponentials over their sum.  The exponential is
\* taken to the base 2, which keeps every value rational; it is the softmax
\* of the logits scaled by ln 2.
Softmax(z) ==
    LET e == [c \in DOMAIN z |-> Pow2(z[c])]
    IN  [c \in DOMAIN z |-> Rat(e[c], SumTo(e, Len(e)))]

\* x ** (1 / T) for a temperature T = 1/k
PowRecip(x, T) == RPow(x, RInv(T)[1])

\* variant: the sharpened average is not renormalised
GuessLabelsNoRenorm(u1, u2, T) ==
    [i \in DOMAIN u1 |->
        [c \in DOMAIN u1[i] |->
            PowRecip(RDiv(RAdd(Softmax(u1[i])[c], Softmax(u2[i])[c]), R(2)), T)]]

\* p = (softmax(outputs_u1) + softmax(outputs_u2)) / 2; pt = p ** (1 / T);
\* targets_u = pt / pt.sum(dim=1, keepdim=True)
GuessLabels(u1, u2, T) ==
    [i \in DOMAIN u1 |->
        LET p == [c \in DOMAIN u1[i] |->
                     RDiv(RAdd(Softmax(u1[i])[c], Softmax(u2[i])[c]), R(2))]
            pt == [c \in DOMAIN p |-> PowRecip(p[c], T)]
        IN  [c \in DOMAIN pt |-> RDiv(pt[c], RSum(pt))]]

\* targets_l_oh = zeros(batch, classes); targets_l_oh[range(batch), targets_l] = 1.0
\* (classes are numbered from 0, a negative index counts from the end)
OneHot(tl, b, nc) ==
    [i \in 1..b |-> [c \in 1..nc |-> IF c - 1 = tl[i] % nc THEN R(1) ELSE R(0)]]

\* variant: the draw is used as it is
MixCoefficientNoMax(x) == x

\* l = max(l, 1 - l)
MixCoefficient(x) == RMax(x, RSub(R(1), x))

\* l * a + (1 - l) * b
Blend(lam, a, b) == RAdd(RMul(lam, a), RMul(RSub(R(1), lam), b))

\* mixed = l * x + (1 - l) * x[idx], on rows of scalars
MixScalars(lam, x, perm) == [i \in DOMAIN x |-> Blend(lam, x[i], x[perm[i]])]

\* the same on rows of vectors
MixRows(lam, x, perm) ==
    [i \in DOMAIN x |-> [c \in DOMAIN x[i] |-> Blend(lam, x[i][c], x[perm[i]][c])]]

NumClasses == 2
MaxLogit == 1
MaxInvT == 2
MaxMixBatch == 2
BetaGrid == 4

\* logit rows: every class scores 0 or MaxLogit; softmax does not change when
\* a constant is added to a row, so the rows with minimum 0 stand for all
LogitRows ==
    {z \in [1..NumClasses -> {0, MaxLogit}] : \E c \in 1..NumClasses : z[c] = 0}

\* a batch of logit rows: row i is the base row with its classes rotated by i - 1
RotatedBatch(z, b) ==
    [i \in 1..b |-> [c \in 1..NumClasses |-> z[((c + i - 2) % NumClasses) + 1]]]

\* rotations and reflections of 1..n (every permutation when n = 3)
Perms(n) ==
    {[i \in 1..n |-> ((i - 1 + k) % n) + 1] : k \in 0..(n - 1)}
        \cup {[i \in 1..n |-> ((k - i) % n) + 1] : k \in 0..(n - 1)}

InitMixup ==
    /\ pc = "guess"
    /\ mode = "train"
    /\ params = <<>> /\ ema_params = <<>> /\ init_params = <<>> /\ opt_params = <<>>
    /\ alpha = None /\ wd = None /\ learning_rate = None
    /\ lambda_u = 0 /\ epochs = 0
    /\ n_opt = 0 /\ n_ema = 0
    /\ losses_classifier = None /\ results = <<>> /\ evaluated = <<>>
    /\ outputs_l = None
    /\ epoch = 0 /\ data_steps = 0 /\ w = None
    /\ batch \in 1..MaxMixBatch
    /\ \E k \in 1..MaxInvT :
          inputs = [ targets_l |-> [i \in 1..batch |-> (batch - i) % NumClasses],
                     images |-> [i \in 1..(3 * batch) |-> R(i)],
                     T |-> Rat(1, k) ]
    /\ targets_l_oh = None /\ targets_u = None /\ l0 = None /\ l = None /\ idx = None
    /\ mixed_input = None /\ mixed_target = None /\ logits = None

\* the routine in training mode up to the concatenation: one-hot labeled
\* targets and guessed unlabeled targets; the classifier's outputs on the two
\* unlabeled views are any batches of logit rows
RoutineGuess ==
    /\ pc = "guess"
    /\ targets_l_oh' = OneHot(inputs.targets_l, batch, NumClasses)
    /\ \E z1 \in LogitRows, z2 \in LogitRows :
          LET outputs_u1 == RotatedBatch(z1, batch)
              outputs_u2 == RotatedBatch(z2, batch)
          IN  targets_u' = GuessLabels(outputs_u1, outputs_u2, inputs.T)
    /\ pc' = "mixup"
    /\ UNCHANGED <<batch, inputs, l0, l, idx, mixed_input, mixed_target, logits>>
    /\ UNCHANGED emaVars
    /\ UNCHANGED lossVars
    /\ UNCHANGED diagVars

\* the routine's mixup: the Beta draw, the permutation and the blends
RoutineMixup ==
    /\ pc = "mixup"
    /\ \E g \in 0..BetaGrid, perm \in Perms(3 * batch) :
          LET all_targets == targets_l_oh \o targets_u \o targets_u IN
          /\ l0' = Rat(g, BetaGrid)
          /\ l' = MixCoefficient(l0')
          /\ idx' = perm
          /\ mixed_input' = MixScalars(l', inputs.images, perm)
          /\ mixed_target' = MixRows(l', all_targets, perm)
    /\ pc' = "mixed"
    /\ UNCHANGED <<batch, inputs, targets_l_oh, targets_u, logits>>
    /\ UNCHANGED emaVars
    /\ UNCHANGED lossVars
    /\ UNCHANGED diagVars

NextMixup == RoutineGuess \/ RoutineMixup

SpecMixup == InitMixup /\ [][NextMixup]_vars

IsDistribution(row) ==
    /\ \A c \in DOMAIN row : RLeq(R(0), row[c])
    /\ RSum(row) = R(1)

\* C8: every row of the one-hot targets, of the guessed targets and of the
\* mixed targets has non-negative entries that sum to 1.
C8_TargetsAreDistributions ==
    /\ pc \in {"mixup", "mixed"} =>
          /\ Len(targets_l_oh) = batch /\ Len(targets_u) = batch
          /\ \A i \in 1..batch :
                /\ IsDistribution(targets_l_oh[i])
                /\ targets_l_oh[i][inputs.targets_l[i] + 1] = R(1)
                /\ IsDistribution(targets_u[i])
    /\ pc = "mixed" =>
          /\ Len(mixed_target) = 3 * batch
          /\ \A i \in 1..(3 * batch) : IsDistribution(mixed_target[i])

\* a sharpened guess (T = 1/2) that is not one-hot, blended with l = 3/4
\* into a labeled row
C8_Witness ==
    /\ pc = "mixed" /\ inputs.T = Rat(1, 2) /\ l = Rat(3, 4)
    /\ \E c \in 1..NumClasses : targets_u[1][c] \notin {R(0), R(1), Rat(1, NumClasses)}
    /\ idx[1] > batch
    /\ mixed_target[1] # targets_l_oh[1]

\* C10: the coefficient used is l = max(l0, 1 - l0), it lies in [0.5, 1], so
\* row i's own sample weighs at least as much as its partner idx[i], and the
\* one l blends every row of the inputs and of the targets.
C10_MixCoefficient ==
    pc = "mixed" =>
        LET all_targets == targets_l_oh \o targets_u \o targets_u
            own == l
            partner == RSub(R(1), l)
        IN  /\ RLeq(Rat(1, 2), l) /\ RLeq(l, R(1))
            /\ l \in {l0, RSub(R(1), l0)}
            /\ RLeq(l0, l) /\ RLeq(partner, own)
            /\ \A i \in 1..(3 * batch) :
                  /\ mixed_input[i] =
                        RAdd(RMul(own, inputs.images[i]),
                             RMul(partner, inputs.images[idx[i]]))
                  /\ \A c \in 1..NumClasses :
                        mixed_target[i][c] =
                            RAdd(RMul(own, all_targets[i][c]),
                                 RMul(partner, all_targets[idx[i]][c]))

\* a draw below 0.5 was replaced by its complement
C10_Witness ==
    /\ pc = "mixed" /\ l0 = Rat(1, 4) /\ l = Rat(3, 4)
    /\ idx[1] # 1
    /\ mixed_input[1] # inputs.images[1]

====
